---- MODULE Spec2Model ----
(***************************************************************************)
(* Account validators of the cpamm program                                 *)
(* (programs/cpamm/src/account_validators.rs).                             *)
(*                                                                         *)
(* Keys (Pubkey) are naturals, so that the ordering the create-pool        *)
(* validator relies on is the ordering of the model.  The chain is a fixed *)
(* table of mint accounts and token accounts; a request is the set of keys *)
(* the caller presents, and an account's data is read from the table, so   *)
(* one key always carries one account's data.                              *)
(***************************************************************************)
EXTENDS Integers, FiniteSets, Sequences, TLC

VARIABLES pools, last

vars == <<pools, last>>

\* ------------------------------------------------------------------ bounds

\* Number of user wallets whose token accounts may be presented.
NumUsers == 1

\* ------------------------------------------------------------- the chain

\* The pool identity (self.swap / self.user.swap).
SwapKey == 20

Swaps == {SwapKey}

Users == 21 .. (20 + NumUsers)

Owners == Swaps \cup Users

\* The asset mints that may be proposed as token_0 / token_1.
TokenMints == {1, 2}

\* Candidate pool-share mints.
PoolMints == 11 .. 16

\* Option<Pubkey>: None is the empty sequence, Some(k) is <<k>>.
None == << >>

Some(k) == <<k>>

\* Mint account data read by the validators: decimals, mint_authority,
\* freeze_authority.
MintAccount(k) ==
    CASE k = 1  -> [decimals |-> 6, mint_authority |-> Some(21), freeze_authority |-> None]
      [] k = 2  -> [decimals |-> 9, mint_authority |-> None, freeze_authority |-> None]
      [] k = 11 -> [decimals |-> 9, mint_authority |-> Some(SwapKey), freeze_authority |-> Some(SwapKey)]
      [] k = 12 -> [decimals |-> 6, mint_authority |-> Some(SwapKey), freeze_authority |-> Some(SwapKey)]
      [] k = 13 -> [decimals |-> 9, mint_authority |-> None, freeze_authority |-> Some(SwapKey)]
      [] k = 14 -> [decimals |-> 9, mint_authority |-> Some(SwapKey), freeze_authority |-> None]
      [] k = 15 -> [decimals |-> 9, mint_authority |-> Some(21), freeze_authority |-> Some(SwapKey)]
      [] OTHER  -> [decimals |-> 9, mint_authority |-> Some(SwapKey), freeze_authority |-> Some(21)]

\* get_associated_token_address(owner, mint): a program-derived address,
\* modelled as an injective encoding of the pair into the key space.
ATA(owner, mint) == 1000 + 100 * owner + mint

\* A non-associated token account of mint m owned by the pool.
FeeAccount(m) == 500 + m

\* The mints that token accounts exist for: the assets and the good pool mint.
HeldMints == TokenMints \cup {11}

TokenAccounts ==
    {ATA(o, m) : o \in Owners, m \in HeldMints} \cup {FeeAccount(m) : m \in TokenMints}

\* Token account data read by the validators: mint and owner.
TokenAccount(k) ==
    IF k >= 1000
    THEN [mint |-> k % 100, owner |-> (k - 1000) \div 100]
    ELSE [mint |-> k - 500, owner |-> SwapKey]

\* -------------------------------------------------------------- outcomes

Ok == [kind |-> "Ok", code |-> "", label |-> ""]

Err(code, label) == [kind |-> "Err", code |-> code, label |-> label]

\* Abnormal termination: the validator returns no ProgramResult.
Panic(label) == [kind |-> "Panic", code |-> "unwrap", label |-> label]

\* The ? operator / early return of the macros: the first failure is the result.
Then(r, next) == IF r.kind = "Ok" THEN next ELSE r

assert_keys(a, b, label) == IF a = b THEN Ok ELSE Err("KeyMismatch", label)

invariant(cond, label) == IF cond THEN Ok ELSE Err("InvariantFailed", label)

require(cond, code) == IF cond THEN Ok ELSE Err(code, "")

assert_ata(account, owner, mint, label) ==
    IF account = ATA(owner, mint) THEN Ok ELSE Err("ATAMismatch", label)

\* assert_keys!(opt.unwrap(), key, label): unwrap of None panics.
assert_keys_unwrap(opt, key, label) ==
    IF opt = None THEN Panic(label) ELSE assert_keys(opt[1], key, label)

Max(a, b) == IF a >= b THEN a ELSE b

\* ------------------------------------------------------- slot validators

\* Mutant: the fee account is not compared with the reserve.
InitSwapTokenValidate_NoDistinct(slot, swap) ==
    Then(assert_keys(TokenAccount(slot.fees).mint, slot.mint, "fees.mint"),
    Then(assert_keys(TokenAccount(slot.fees).owner, swap, "fees.owner"),
         assert_ata(slot.reserve, swap, slot.mint, "reserve")))

InitSwapTokenValidate(slot, swap) ==
    Then(assert_keys(TokenAccount(slot.fees).mint, slot.mint, "fees.mint"),
    Then(assert_keys(TokenAccount(slot.fees).owner, swap, "fees.owner"),
    Then(assert_ata(slot.reserve, swap, slot.mint, "reserve"),
         invariant(slot.fees # slot.reserve, "fees cannot equal reserve"))))

\* Mutant: the user account is not compared with the reserve.
SwapTokenValidate_NoSelfCheck(leg, swap_info) ==
    Then(assert_keys(leg.reserve, swap_info.reserves, "reserve"),
         assert_keys(TokenAccount(leg.user).mint, swap_info.mint, "user.mint"))

SwapTokenValidate(leg, swap_info) ==
    Then(assert_keys(leg.reserve, swap_info.reserves, "reserve"),
    Then(assert_keys(TokenAccount(leg.user).mint, swap_info.mint, "user.mint"),
         invariant(leg.reserve # leg.user, "user cannot be reserve account")))

\* Mutant: the user account is not compared with the fee account.
SwapTokenWithFeesValidate_NoFeeSelfCheck(leg, swap_info) ==
    Then(assert_keys(leg.fees, swap_info.admin_fees, "fees"),
    Then(assert_keys(leg.reserve, swap_info.reserves, "reserve"),
    Then(assert_keys(TokenAccount(leg.user).mint, swap_info.mint, "user.mint"),
         invariant(leg.reserve # leg.user, "user cannot be reserve account"))))

\* Mutant: the reserve-side checks run before the fee-side checks.
SwapTokenWithFeesValidate_ReserveFirst(leg, swap_info) ==
    Then(assert_keys(leg.reserve, swap_info.reserves, "reserve"),
    Then(assert_keys(TokenAccount(leg.user).mint, swap_info.mint, "user.mint"),
    Then(invariant(leg.reserve # leg.user, "user cannot be reserve account"),
    Then(assert_keys(leg.fees, swap_info.admin_fees, "fees"),
         invariant(leg.fees # leg.user, "user cannot be fees account")))))

SwapTokenWithFeesValidate(leg, swap_info) ==
    Then(assert_keys(leg.fees, swap_info.admin_fees, "fees"),
    Then(assert_keys(leg.reserve, swap_info.reserves, "reserve"),
    Then(assert_keys(TokenAccount(leg.user).mint, swap_info.mint, "user.mint"),
    Then(invariant(leg.fees # leg.user, "user cannot be fees account"),
         invariant(leg.reserve # leg.user, "user cannot be reserve account")))))

\* -------------------------------------------------- operation validators

\* Mutant: the two mints must differ but need not be sorted.
NewSwapValidate_Unsorted(req) ==
    LET pool_mint_decimals ==
            Max(MintAccount(req.token_0.mint).decimals, MintAccount(req.token_1.mint).decimals)
        pm == MintAccount(req.pool_mint)
    IN  Then(invariant(pm.decimals = pool_mint_decimals,
                       "pool mint decimals must be the max of token A and token B mint"),
        Then(assert_keys_unwrap(pm.mint_authority, req.swap, "pool_mint.mint_authority"),
        Then(assert_keys_unwrap(pm.freeze_authority, req.swap, "pool_mint.freeze_authority"),
        Then(assert_keys(TokenAccount(req.output_lp).mint, req.pool_mint, "output_lp.mint"),
        Then(require(req.token_0.mint # req.token_1.mint, "SwapTokensCannotBeEqual"),
        Then(InitSwapTokenValidate(req.token_0, req.swap),
             InitSwapTokenValidate(req.token_1, req.swap)))))))

NewSwapValidate(req) ==
    LET pool_mint_decimals ==
            Max(MintAccount(req.token_0.mint).decimals, MintAccount(req.token_1.mint).decimals)
        pm == MintAccount(req.pool_mint)
    IN  Then(invariant(pm.decimals = pool_mint_decimals,
                       "pool mint decimals must be the max of token A and token B mint"),
        Then(assert_keys_unwrap(pm.mint_authority, req.swap, "pool_mint.mint_authority"),
        Then(assert_keys_unwrap(pm.freeze_authority, req.swap, "pool_mint.freeze_authority"),
        Then(assert_keys(TokenAccount(req.output_lp).mint, req.pool_mint, "output_lp.mint"),
        Then(require(req.token_0.mint # req.token_1.mint, "SwapTokensCannotBeEqual"),
        Then(require(req.token_0.mint < req.token_1.mint, "SwapTokensNotSorted"),
        Then(InitSwapTokenValidate(req.token_0, req.swap),
             InitSwapTokenValidate(req.token_1, req.swap))))))))

\* Mutant: the declared reserve is matched against token_1 first.
SwapDirection_Token1First(swap, req) ==
    IF req.input.reserve = swap.token_1.reserves
    THEN <<"token_1", "token_0">>
    ELSE <<"token_0", "token_1">>

\* The (input, output) slots of a swap, by name.
SwapDirection(swap, req) ==
    IF req.input.reserve = swap.token_0.reserves
    THEN <<"token_0", "token_1">>
    ELSE <<"token_1", "token_0">>

SwapValidate(swap, req) ==
    LET dir == SwapDirection(swap, req)
    IN  Then(require(~swap.is_paused, "Paused"),
        Then(SwapTokenValidate(req.input, swap[dir[1]]),
             SwapTokenValidate(req.output, swap[dir[2]])))

\* Mutant: the paused flag is read after the pool-share mint checks.
WithdrawValidate_PausedLate(swap, req) ==
    Then(assert_keys(req.pool_mint, swap.pool_mint, "pool_mint"),
    Then(assert_keys(TokenAccount(req.input_lp).mint, req.pool_mint, "input_lp.mint"),
    Then(require(~swap.is_paused, "Paused"),
    Then(SwapTokenWithFeesValidate(req.output_0, swap.token_0),
         SwapTokenWithFeesValidate(req.output_1, swap.token_1)))))

WithdrawValidate(swap, req) ==
    Then(require(~swap.is_paused, "Paused"),
    Then(assert_keys(req.pool_mint, swap.pool_mint, "pool_mint"),
    Then(assert_keys(TokenAccount(req.input_lp).mint, req.pool_mint, "input_lp.mint"),
    Then(SwapTokenWithFeesValidate(req.output_0, swap.token_0),
         SwapTokenWithFeesValidate(req.output_1, swap.token_1)))))

\* Mutant: the owner of the LP destination is not checked.
DepositValidate_NoOwnerCheck(swap, key, req) ==
    Then(require(~swap.is_paused, "Paused"),
    Then(SwapTokenWithFeesValidate(req.input_0, swap.token_0),
    Then(SwapTokenWithFeesValidate(req.input_1, swap.token_1),
    Then(assert_keys(req.pool_mint, swap.pool_mint, "pool_mint"),
         assert_keys(TokenAccount(req.output_lp).mint, swap.pool_mint, "output_lp.mint")))))

DepositValidate(swap, key, req) ==
    Then(require(~swap.is_paused, "Paused"),
    Then(SwapTokenWithFeesValidate(req.input_0, swap.token_0),
    Then(SwapTokenWithFeesValidate(req.input_1, swap.token_1),
    Then(assert_keys(req.pool_mint, swap.pool_mint, "pool_mint"),
    Then(assert_keys(TokenAccount(req.output_lp).mint, swap.pool_mint, "output_lp.mint"),
         invariant(TokenAccount(req.output_lp).owner # key,
                   "output_lp.owner should not be the swap"))))))

\* ---------------------------------------------------------------- state

NoPool == [init |-> FALSE]

\* The pool a create-pool request persists once its validation passed.
NewPool(req) ==
    [init      |-> TRUE,
     is_paused |-> FALSE,
     pool_mint |-> req.pool_mint,
     token_0   |-> [mint |-> req.token_0.mint, reserves |-> req.token_0.reserve,
                    admin_fees |-> req.token_0.fees],
     token_1   |-> [mint |-> req.token_1.mint, reserves |-> req.token_1.reserve,
                    admin_fees |-> req.token_1.fees]]

NoRequest == [op |-> "none"]

\* ------------------------------------------------------------- requests

\* Accounts presented as a fee account at initialisation.
FeeChoices ==
    {FeeAccount(m) : m \in TokenMints} \cup {ATA(o, m) : o \in Owners, m \in TokenMints}

\* Accounts presented as a reserve, or as the fee account of a deposit/withdraw leg.
ReserveChoices ==
    {ATA(SwapKey, m) : m \in TokenMints} \cup {FeeAccount(m) : m \in TokenMints}

\* Accounts presented as the user's account of a deposit/withdraw leg.
UserChoices == FeeChoices

\* Accounts presented as the LP token account.
LpChoices == {ATA(o, 11) : o \in Owners} \cup {ATA(SwapKey, 1)}

InitSlots == [mint : TokenMints, fees : FeeChoices, reserve : ReserveChoices]

NewSwapRequests ==
    [swap : Swaps, pool_mint : PoolMints \cup {2}, output_lp : LpChoices,
     token_0 : InitSlots, token_1 : InitSlots]

PlainLegs == [user : TokenAccounts, reserve : TokenAccounts]

SwapRequests == [input : PlainLegs, output : PlainLegs]

FeeLegs == [fees : ReserveChoices, reserve : ReserveChoices, user : UserChoices]

DepositRequests ==
    [input_0 : FeeLegs, input_1 : FeeLegs, pool_mint : {11, 12}, output_lp : LpChoices]

WithdrawRequests ==
    [output_0 : FeeLegs, output_1 : FeeLegs, pool_mint : {11, 12}, input_lp : LpChoices]

\* ---------------------------------------------------------------- actions

Init ==
    /\ pools = [s \in Swaps |-> NoPool]
    /\ last = NoRequest

\* Create-pool: the pool account is initialised once; the request is
\* validated and, when valid, the pool is persisted from it.
NewSwapOp ==
    /\ last.op = "none"
    /\ \E req \in NewSwapRequests :
        /\ ~pools[req.swap].init
        /\ LET res == NewSwapValidate(req)
           IN  /\ last' = [op |-> "NewSwap", swap |-> req.swap, req |-> req, res |-> res]
               /\ pools' = IF res = Ok
                           THEN [pools EXCEPT ![req.swap] = NewPool(req)]
                           ELSE pools

SwapOp ==
    /\ last.op = "none"
    /\ \E s \in Swaps :
        /\ pools[s].init
        /\ \E req \in SwapRequests :
            last' = [op |-> "Swap", swap |-> s, req |-> req,
                     res |-> SwapValidate(pools[s], req),
                     input |-> SwapDirection(pools[s], req)[1],
                     output |-> SwapDirection(pools[s], req)[2]]
    /\ UNCHANGED pools

DepositOp ==
    /\ last.op = "none"
    /\ \E s \in Swaps :
        /\ pools[s].init
        /\ \E req \in DepositRequests :
            last' = [op |-> "Deposit", swap |-> s, req |-> req,
                     res |-> DepositValidate(pools[s], s, req)]
    /\ UNCHANGED pools

WithdrawOp ==
    /\ last.op = "none"
    /\ \E s \in Swaps :
        /\ pools[s].init
        /\ \E req \in WithdrawRequests :
            last' = [op |-> "Withdraw", swap |-> s, req |-> req,
                     res |-> WithdrawValidate(pools[s], req)]
    /\ UNCHANGED pools

\* The administrator pauses or unpauses a pool.
SetPaused ==
    \E s \in Swaps, p \in BOOLEAN :
        /\ last.op = "none"
        /\ pools[s].init
        /\ pools[s].is_paused # p
        /\ pools' = [pools EXCEPT ![s].is_paused = p]
        /\ UNCHANGED last

\* The request account set is discarded once the operation completed or failed.
Discard ==
    /\ last.op # "none"
    /\ last' = NoRequest
    /\ UNCHANGED pools

Next == NewSwapOp \/ SwapOp \/ DepositOp \/ WithdrawOp \/ SetPaused \/ Discard

Spec == Init /\ [][Next]_vars

\* ---------------------------------------------------- signals of the spec

PoolPaused == Err("Paused", "")

ReserveMismatch == Err("KeyMismatch", "reserve")

FeeMismatch == Err("KeyMismatch", "fees")

MintMismatch == Err("KeyMismatch", "user.mint")

SelfDealingReserve == Err("InvariantFailed", "user cannot be reserve account")

SelfDealingFees == Err("InvariantFailed", "user cannot be fees account")

FeeEqualsReserve == Err("InvariantFailed", "fees cannot equal reserve")

SelfOwnership == Err("InvariantFailed", "output_lp.owner should not be the swap")

\* ------------------------------------------------- vocabulary of the claims

\* An operation on an existing pool has just been validated.
PoolOp == last.op \in {"Swap", "Deposit", "Withdraw"}

\* The equality checks of a plain leg against a persisted slot.
PlainEq(leg, slot) ==
    /\ leg.reserve = slot.reserves
    /\ TokenAccount(leg.user).mint = slot.mint

\* A plain leg passes every check of the plain slot validation.
PlainPass(leg, slot) == PlainEq(leg, slot) /\ leg.user # leg.reserve

\* The equality checks of a fee-bearing leg against a persisted slot.
FeeEq(leg, slot) ==
    /\ leg.fees = slot.admin_fees
    /\ leg.reserve = slot.reserves
    /\ TokenAccount(leg.user).mint = slot.mint

\* A fee-bearing leg passes every check of the fee-bearing slot validation.
FeePass(leg, slot) == FeeEq(leg, slot) /\ leg.user # leg.fees /\ leg.user # leg.reserve

\* The pool-share mint checks that precede the legs of a withdraw.
WithdrawLpOk(swap, req) ==
    /\ req.pool_mint = swap.pool_mint
    /\ TokenAccount(req.input_lp).mint = req.pool_mint

\* The user account of each leg of the last request with the slot the leg
\* was validated against and whether the leg is fee-bearing.
LegsOfLast ==
    LET p == pools[last.swap]
        r == last.req
    IN  CASE last.op = "Swap" ->
                {<<r.input.user, p[last.input], FALSE>>, <<r.output.user, p[last.output], FALSE>>}
          [] last.op = "Deposit" ->
                {<<r.input_0.user, p.token_0, TRUE>>, <<r.input_1.user, p.token_1, TRUE>>}
          [] last.op = "Withdraw" ->
                {<<r.output_0.user, p.token_0, TRUE>>, <<r.output_1.user, p.token_1, TRUE>>}
          [] OTHER -> {}

\* -------------------------------------------------------------------- C1

\* C1: every pool that exists has token_0 mint identity strictly less than
\* token_1 mint identity, in every reachable state.
C1_MintsSorted ==
    \A s \in Swaps : pools[s].init => pools[s].token_0.mint < pools[s].token_1.mint

\* A pool was created and a later swap was accepted on it.
C1_Witness ==
    \E s \in Swaps : pools[s].init /\ last.op = "Swap" /\ last.swap = s /\ last.res = Ok

\* -------------------------------------------------------------------- C2

C2_SlotsDistinct ==
    \A s \in Swaps : pools[s].init =>
        /\ pools[s].token_0.reserves # pools[s].token_0.admin_fees
        /\ pools[s].token_1.reserves # pools[s].token_1.admin_fees

C2_InitRejects ==
    last.op = "NewSwap" =>
        LET r == last.req
            pm == MintAccount(r.pool_mint)
        IN  /\ (r.token_0.fees = r.token_0.reserve \/ r.token_1.fees = r.token_1.reserve)
                    => last.res # Ok
            \* the fee account is the canonical associated account itself
            /\ (/\ pm.decimals = Max(MintAccount(r.token_0.mint).decimals,
                                     MintAccount(r.token_1.mint).decimals)
                /\ pm.mint_authority = Some(r.swap)
                /\ pm.freeze_authority = Some(r.swap)
                /\ TokenAccount(r.output_lp).mint = r.pool_mint
                /\ r.token_0.mint < r.token_1.mint
                /\ r.token_0.fees = ATA(r.swap, r.token_0.mint)
                /\ r.token_0.reserve = ATA(r.swap, r.token_0.mint))
                    => last.res = FeeEqualsReserve

C2_SlotsKept ==
    \A s \in Swaps : pools[s].init =>
        /\ pools'[s].token_0 = pools[s].token_0
        /\ pools'[s].token_1 = pools[s].token_1

\* C2: each slot of every pool has reserve identity different from fee
\* identity in every reachable state; the initialization validator rejects
\* a slot whose fee account is its reserve; no later step changes a slot.
C2_ReserveNotFee == [](C2_SlotsDistinct /\ C2_InitRejects) /\ [][C2_SlotsKept]_vars

\* A pool was created and a later withdraw was accepted on it.
C2_Witness ==
    \E s \in Swaps : pools[s].init /\ last.op = "Withdraw" /\ last.swap = s /\ last.res = Ok

\* -------------------------------------------------------------------- C3

\* C3: on an unpaused pool the swap's input slot is token_0 when the declared
\* input reserve is token_0's reserve, token_1 when it is token_1's reserve,
\* and token_1 with a reserve mismatch when it is neither; an accepted swap
\* has its legs matching the slots so selected.
C3_SwapDirection ==
    (last.op = "Swap" /\ ~pools[last.swap].is_paused) =>
        LET p == pools[last.swap]
            r == last.req
        IN  /\ r.input.reserve = p.token_0.reserves =>
                /\ last.input = "token_0" /\ last.output = "token_1"
                /\ last.res = Ok => PlainPass(r.input, p.token_0) /\ PlainPass(r.output, p.token_1)
            /\ r.input.reserve = p.token_1.reserves =>
                /\ last.input = "token_1" /\ last.output = "token_0"
                /\ last.res = Ok => PlainPass(r.input, p.token_1) /\ PlainPass(r.output, p.token_0)
            /\ r.input.reserve \notin {p.token_0.reserves, p.token_1.reserves} =>
                /\ last.input = "token_1"
                /\ last.res = ReserveMismatch
            /\ last.res = Ok => r.input.reserve \in {p.token_0.reserves, p.token_1.reserves}

\* A swap in the flipped direction (input is token_1) was accepted.
C3_Witness ==
    /\ last.op = "Swap"
    /\ ~pools[last.swap].is_paused
    /\ last.req.input.reserve = pools[last.swap].token_1.reserves
    /\ last.input = "token_1"
    /\ last.res = Ok

\* -------------------------------------------------------------------- C4

\* C4 as stated: no accepted swap, deposit or withdraw has a user account
\* equal to the persisted reserve or the persisted fee account of the slot
\* its leg is validated against.
C4_Original ==
    (PoolOp /\ last.res = Ok) =>
        \A l \in LegsOfLast : l[1] # l[2].reserves /\ l[1] # l[2].admin_fees

\* C4 amended: no accepted swap, deposit or withdraw has a user account equal
\* to the persisted reserve of its leg's slot, and no accepted deposit or
\* withdraw has a user account equal to the persisted fee account of its
\* leg's slot.
C4_NoSelfDealingAccepted ==
    (PoolOp /\ last.res = Ok) =>
        \A l \in LegsOfLast : l[1] # l[2].reserves /\ (l[3] => l[1] # l[2].admin_fees)

\* A deposit whose first user account is the slot's fee account, every
\* equality check of the leg passing, was rejected.
C4_Witness ==
    /\ last.op = "Deposit"
    /\ ~pools[last.swap].is_paused
    /\ FeeEq(last.req.input_0, pools[last.swap].token_0)
    /\ last.req.input_0.user = pools[last.swap].token_0.admin_fees
    /\ last.res = SelfDealingFees

\* -------------------------------------------------------------------- C5

\* The legs of the last request in the order they are validated, as
\* <<leg, slot, fee-bearing>>, when the checks before the legs passed.
LegSeqOfLast ==
    LET p == pools[last.swap]
        r == last.req
    IN  CASE last.op = "Swap" /\ ~p.is_paused ->
                << <<r.input, p[last.input], FALSE>>, <<r.output, p[last.output], FALSE>> >>
          [] last.op = "Deposit" /\ ~p.is_paused ->
                << <<r.input_0, p.token_0, TRUE>>, <<r.input_1, p.token_1, TRUE>> >>
          [] last.op = "Withdraw" /\ ~p.is_paused /\ WithdrawLpOk(p, r) ->
                << <<r.output_0, p.token_0, TRUE>>, <<r.output_1, p.token_1, TRUE>> >>
          [] OTHER -> << >>

LegPass(l) == IF l[3] THEN FeePass(l[1], l[2]) ELSE PlainPass(l[1], l[2])

LegEq(l) == IF l[3] THEN FeeEq(l[1], l[2]) ELSE PlainEq(l[1], l[2])

\* The user account of the leg is the leg's own reserve or (fee-bearing) fee account.
LegSelfDeals(l) == l[1].user = l[1].reserve \/ (l[3] /\ l[1].user = l[1].fees)

\* The first leg of the last request that does not pass, if the legs were reached.
FirstFailingLeg ==
    LET q == LegSeqOfLast
    IN  IF q = << >> THEN << >>
        ELSE IF ~LegPass(q[1]) THEN <<q[1]>>
        ELSE IF ~LegPass(q[2]) THEN <<q[2]>>
        ELSE << >>

\* C5 as stated: a slot validation whose user account is the request's
\* reserve (or fee account) ends in SelfDealing whatever the other checks do.
C5_Original ==
    \A i \in DOMAIN FirstFailingLeg :
        LegSelfDeals(FirstFailingLeg[i]) => last.res \in {SelfDealingReserve, SelfDealingFees}

\* C5 amended: a slot validation whose user account is the request's reserve
\* (or, fee-bearing, the request's fee account) fails: with SelfDealing when
\* the slot's equality checks pass, with a key mismatch otherwise.
C5_SelfDealing ==
    \A i \in DOMAIN FirstFailingLeg :
        LET l == FirstFailingLeg[i]
        IN  LegSelfDeals(l) =>
                /\ last.res.kind = "Err"
                /\ LegEq(l) =>
                      last.res = IF l[3] /\ l[1].user = l[1].fees
                                 THEN SelfDealingFees ELSE SelfDealingReserve
                /\ ~LegEq(l) => last.res.code = "KeyMismatch"

\* A swap whose input user account is the pool's own reserve of the input
\* slot was rejected as self-dealing.
C5_Witness ==
    /\ last.op = "Swap"
    /\ ~pools[last.swap].is_paused
    /\ last.req.input.user = last.req.input.reserve
    /\ last.req.input.reserve = pools[last.swap][last.input].reserves
    /\ last.res = SelfDealingReserve

\* -------------------------------------------------------------------- C6

\* C6: a swap, deposit or withdraw on a paused pool ends in PoolPaused,
\* whatever the request.
C6_PausedFirst == (PoolOp /\ pools[last.swap].is_paused) => last.res = PoolPaused

\* A withdraw naming a foreign pool-share mint was rejected as paused.
C6_Witness ==
    /\ last.op = "Withdraw"
    /\ pools[last.swap].is_paused
    /\ last.req.pool_mint # pools[last.swap].pool_mint
    /\ last.res = PoolPaused

\* -------------------------------------------------------------------- C7

\* C7: every validation ends in Valid or Invalid(signal).
C7_Total == last.op # "none" => last.res.kind \in {"Ok", "Err"}

\* -------------------------------------------------------------------- C8

\* C8: no deposit whose LP destination is owned by the pool is accepted, and
\* when every earlier check passes the outcome is SelfOwnership.
C8_NoSelfOwnedLp ==
    (last.op = "Deposit" /\ TokenAccount(last.req.output_lp).owner = last.swap) =>
        LET p == pools[last.swap]
            r == last.req
        IN  /\ last.res # Ok
            /\ (/\ ~p.is_paused
                /\ FeePass(r.input_0, p.token_0)
                /\ FeePass(r.input_1, p.token_1)
                /\ r.pool_mint = p.pool_mint
                /\ TokenAccount(r.output_lp).mint = p.pool_mint) => last.res = SelfOwnership

\* A deposit passing every other check was rejected for its pool-owned LP destination.
C8_Witness ==
    /\ last.op = "Deposit"
    /\ TokenAccount(last.req.output_lp).owner = last.swap
    /\ FeePass(last.req.input_0, pools[last.swap].token_0)
    /\ FeePass(last.req.input_1, pools[last.swap].token_1)
    /\ last.res = SelfOwnership

\* -------------------------------------------------------------------- C9

\* The conditions of one proposed slot.
InitSlotOk(slot, swap) ==
    /\ TokenAccount(slot.fees).mint = slot.mint
    /\ TokenAccount(slot.fees).owner = swap
    /\ slot.reserve = ATA(swap, slot.mint)
    /\ slot.fees # slot.reserve

\* The conditions of a create-pool request.
NewSwapOk(req) ==
    /\ MintAccount(req.pool_mint).decimals =
           Max(MintAccount(req.token_0.mint).decimals, MintAccount(req.token_1.mint).decimals)
    /\ MintAccount(req.pool_mint).mint_authority = Some(req.swap)
    /\ MintAccount(req.pool_mint).freeze_authority = Some(req.swap)
    /\ TokenAccount(req.output_lp).mint = req.pool_mint
    /\ req.token_0.mint < req.token_1.mint
    /\ InitSlotOk(req.token_0, req.swap)
    /\ InitSlotOk(req.token_1, req.swap)

\* C9: create-pool validation is Valid exactly under the listed conditions
\* and Invalid otherwise.
C9_ValidIff ==
    last.op = "NewSwap" =>
        /\ last.res = Ok <=> NewSwapOk(last.req)
        /\ ~NewSwapOk(last.req) => last.res.kind = "Err"

\* ------------------------------------------------------------------- C10

\* The outcome of a fee-bearing leg under the order (a) reserve, (b) mint,
\* (c) user is not the reserve, (d) fee account, (e) user is not the fee account.
ReserveFirstOutcome(leg, slot) ==
    IF leg.reserve # slot.reserves THEN ReserveMismatch
    ELSE IF TokenAccount(leg.user).mint # slot.mint THEN MintMismatch
    ELSE IF leg.user = leg.reserve THEN SelfDealingReserve
    ELSE IF leg.fees # slot.admin_fees THEN FeeMismatch
    ELSE IF leg.user = leg.fees THEN SelfDealingFees
    ELSE Ok

\* The outcome of a fee-bearing leg under the order (d) fee account,
\* (a) reserve, (b) mint, (e) user is not the fee account, (c) user is not
\* the reserve.
FeeFirstOutcome(leg, slot) ==
    IF leg.fees # slot.admin_fees THEN FeeMismatch
    ELSE IF leg.reserve # slot.reserves THEN ReserveMismatch
    ELSE IF TokenAccount(leg.user).mint # slot.mint THEN MintMismatch
    ELSE IF leg.user = leg.fees THEN SelfDealingFees
    ELSE IF leg.user = leg.reserve THEN SelfDealingReserve
    ELSE Ok

\* C10 as stated: the first failing fee-bearing leg is reported in the order
\* (a), (b), (c), (d), (e).
C10_Original ==
    \A i \in DOMAIN FirstFailingLeg :
        LET l == FirstFailingLeg[i]
        IN  l[3] => last.res = ReserveFirstOutcome(l[1], l[2])

\* C10 amended: the first failing fee-bearing leg is reported in the order
\* (d), (a), (b), (e), (c).
C10_FeeFirstOrder ==
    \A i \in DOMAIN FirstFailingLeg :
        LET l == FirstFailingLeg[i]
        IN  l[3] => last.res = FeeFirstOutcome(l[1], l[2])

\* A deposit leg with both a wrong reserve and a wrong fee account was
\* reported as a fee mismatch.
C10_Witness ==
    /\ last.op = "Deposit"
    /\ ~pools[last.swap].is_paused
    /\ last.req.input_0.reserve # pools[last.swap].token_0.reserves
    /\ last.req.input_0.fees # pools[last.swap].token_0.admin_fees
    /\ last.res = FeeMismatch

====
